---- MODULE Spec2Model ----
(***************************************************************************)
(* CharZapper (src/charzapper.py): the snippet engine of class App.       *)
(* Strings are sequences of one-character strings.  A session is one run  *)
(* of App.run: frames that each handle a batch of pygame events.          *)
(***************************************************************************)
EXTENDS Integers, Sequences, FiniteSets, TLC

VARIABLES dictionary, set_order,
          lowercase_snippets, lowercase_names, names, tags, chars,
          input_text, matches, matches_shift, tag_matches, char_matches,
          shift, selection, done,
          pc, pending, stdout, clipboard, cancelled, assigned_text

vars == <<dictionary, set_order,
          lowercase_snippets, lowercase_names, names, tags, chars,
          input_text, matches, matches_shift, tag_matches, char_matches,
          shift, selection, done,
          pc, pending, stdout, clipboard, cancelled, assigned_text>>

index_vars == <<dictionary, set_order,
                lowercase_snippets, lowercase_names, names, tags, chars>>

resolution_vars == <<input_text, matches, matches_shift, tag_matches,
                     char_matches, selection>>

(***************************************************************************)
(* Bounds of the model.                                                    *)
(***************************************************************************)
\* longest input buffer the keyboard actions build
MaxLen == 3
\* most events pygame.event.get() hands to one frame
MaxBatch == 2
\* entries of the large dictionary beyond MAX_MATCHES
Extra == 1
\* largest hash seed (each seed is one iteration order of the sets)
MaxSeed == 1

\* charzapper.py:29
MAX_MATCHES == 10

(***************************************************************************)
(* Characters and the str methods the engine uses.                         *)
(***************************************************************************)
\* what event.unicode can carry: a letter in both cases, a space, a digit
Alphabet == {"a", "A", " ", "1"}

\* str.lower() on one character
LowerCh(c) == CASE c = "A" -> "a"
                [] c = "B" -> "b"
                [] OTHER -> c

\* str.upper() on one character
UpperCh(c) == CASE c = "a" -> "A"
                [] c = "b" -> "B"
                [] OTHER -> c

\* str.isupper() on one character: cased and uppercase
IsUpperCh(c) == c \in {"A", "B"}

\* a cased, lowercase character
IsLowerCh(c) == c \in {"a", "b"}

IsSpace(c) == c = " "

Lower(s) == [i \in 1..Len(s) |-> LowerCh(s[i])]

Upper(s) == [i \in 1..Len(s) |-> UpperCh(s[i])]

\* str.islower(): at least one cased character and no uppercase one
IsLower(s) == /\ \E i \in 1..Len(s) : IsLowerCh(s[i])
              /\ \A i \in 1..Len(s) : ~IsUpperCh(s[i])

RECURSIVE LStrip(_)
LStrip(s) == IF s # <<>> /\ IsSpace(Head(s)) THEN LStrip(Tail(s)) ELSE s

RECURSIVE RStrip(_)
RStrip(s) == IF s # <<>> /\ IsSpace(s[Len(s)])
             THEN RStrip(SubSeq(s, 1, Len(s) - 1)) ELSE s

\* str.strip()
Strip(s) == RStrip(LStrip(s))

\* str.split(): the maximal runs of non-whitespace characters, in order
RECURSIVE SplitFrom(_, _, _)
SplitFrom(s, cur, acc) ==
    IF s = <<>>
    THEN IF cur = <<>> THEN acc ELSE Append(acc, cur)
    ELSE IF IsSpace(Head(s))
         THEN SplitFrom(Tail(s), <<>>, IF cur = <<>> THEN acc ELSE Append(acc, cur))
         ELSE SplitFrom(Tail(s), Append(cur, Head(s)), acc)

Split(s) == SplitFrom(s, <<>>, <<>>)

(***************************************************************************)
(* Dictionaries (the parsed snippets.yaml): a sequence of entries in file *)
(* order, keyed by word.                                                   *)
(***************************************************************************)
Entry(w, n, t, c) == [word |-> w, name |-> n, tags |-> t, chars |-> c]

\* entries whose word, name, tags and chars overlap, with a mixed-case word
DictSmall ==
    << Entry(<<"a">>, <<"1">>, {<<"1", "1">>}, {"1"}),
       Entry(<<"1", "A">>, <<"A">>, {<<"1">>, <<"1", "1">>}, {}),
       Entry(<<"A", "1">>, <<"A", "A", "1">>, {<<"a">>, <<"1">>, <<"1", "1">>}, {"a", "1"}) >>

\* a caseless symbol, as the words of snippets.yaml mostly are
Sym(i) == "s" \o ToString(i)

\* more entries than MAX_MATCHES, all under one tag and one char
DictMany ==
    [i \in 1..(MAX_MATCHES + Extra) |->
        Entry(<<Sym(i)>>, <<"n", Sym(i)>>, {<<"a">>}, {"1"})]

Dictionaries == {DictSmall, DictMany}

\* an entry whose name is the empty string, after a well-formed one
DictEmptyName ==
    << Entry(<<"a">>, <<"1">>, {<<"1">>}, {"a"}),
       Entry(<<"A", "1">>, <<>>, {<<"a">>}, {"1"}) >>

\* an entry that has no name at all
DictAbsentName ==
    << [word |-> <<"a">>, tags |-> {<<"1">>}, chars |-> {"a"}] >>

\* the dictionaries whole sessions are run on
SessionDictionaries == {DictSmall, DictEmptyName, DictAbsentName}

(***************************************************************************)
(* App.build_dictionary                                                    *)
(***************************************************************************)
EmptyMap == [k \in {} |-> {}]

\* d[k] = v on a dict
Put(d, k, v) == (k :> v) @@ d

\* try: d[k].add(w)  except KeyError: d[k] = set([w])
AddTo(d, k, w) == IF k \in DOMAIN d THEN [d EXCEPT ![k] = @ \cup {w}]
                  ELSE Put(d, k, {w})

RECURSIVE AddAll(_, _, _)
AddAll(d, ks, w) ==
    IF ks = {} THEN d
    ELSE LET k == CHOOSE x \in ks : TRUE
         IN AddAll(AddTo(d, k, w), ks \ {k}, w)

\* data['name'] alone: the two assert statements compiled away
NamePresent(e) == "name" \in DOMAIN e

\* lines 151-154: data['name'] raises KeyError when the key is absent, and
\* "assert name" / "assert lowercase_name" raise on an empty name
ValidName(e) == "name" \in DOMAIN e /\ e.name # <<>>

\* the loop body filing the tags and chars under the entry's name
BuildEntryUnderName(ix, e) ==
    LET lowercase_word == Lower(e.word)
        lowercase_name == Lower(e.name)
        valid == ValidName(e)
    IN [ lowercase_snippets |-> Put(ix.lowercase_snippets, lowercase_word, e.word),
         tags   |-> IF valid THEN AddAll(ix.tags, e.tags, lowercase_name) ELSE ix.tags,
         chars  |-> IF valid THEN AddAll(ix.chars, e.chars, lowercase_name) ELSE ix.chars,
         names  |-> IF valid THEN Put(ix.names, e.name, lowercase_word) ELSE ix.names,
         lowercase_names |-> IF valid
                             THEN Put(ix.lowercase_names, lowercase_name, lowercase_word)
                             ELSE ix.lowercase_names,
         ok |-> valid ]

\* the body of the loop over self.dictionary.items(), for one entry; the
\* word, tags and chars are filed before the name is read, so they stay in
\* the index when the name makes the body raise (ok = FALSE)
BuildEntry(ix, e) ==
    LET lowercase_word == Lower(e.word)
        lowercase_name == Lower(e.name)
        valid == ValidName(e)
    IN [ lowercase_snippets |-> Put(ix.lowercase_snippets, lowercase_word, e.word),
         tags   |-> AddAll(ix.tags, e.tags, lowercase_word),
         chars  |-> AddAll(ix.chars, e.chars, lowercase_word),
         names  |-> IF valid THEN Put(ix.names, e.name, lowercase_word) ELSE ix.names,
         lowercase_names |-> IF valid
                             THEN Put(ix.lowercase_names, lowercase_name, lowercase_word)
                             ELSE ix.lowercase_names,
         ok |-> valid ]

\* the loop: an exception in the body ends it
RECURSIVE BuildFrom(_, _, _)
BuildFrom(d, i, ix) ==
    IF i > Len(d) \/ ~ix.ok THEN ix ELSE BuildFrom(d, i + 1, BuildEntry(ix, d[i]))

build_dictionary(d) ==
    BuildFrom(d, 1, [ lowercase_snippets |-> EmptyMap, tags |-> EmptyMap,
                      chars |-> EmptyMap, names |-> EmptyMap,
                      lowercase_names |-> EmptyMap, ok |-> TRUE ])

(***************************************************************************)
(* Iteration order of a set of words.  CPython orders a set of str by the *)
(* strings' hashes, which are salted once per process: the order is fixed *)
(* for a session and differs between sessions.  set_order holds it.       *)
(***************************************************************************)
\* the lowercase words of the dictionary, each once, in file order
RECURSIVE LowerWords(_, _, _)
LowerWords(d, i, acc) ==
    IF i > Len(d) THEN acc
    ELSE LET w == Lower(d[i].word)
         IN LowerWords(d, i + 1,
                       IF \E j \in 1..Len(acc) : acc[j] = w THEN acc ELSE Append(acc, w))

Rotated(s, k) == [i \in 1..Len(s) |-> s[((i - 1 + k) % Len(s)) + 1]]

Reversed(s) == [i \in 1..Len(s) |-> s[Len(s) + 1 - i]]

\* the iteration order the hash seed gives the words
HashOrder(d, seed) ==
    LET ws == Rotated(LowerWords(d, 1, <<>>), seed \div 2)
    IN IF seed % 2 = 0 THEN ws ELSE Reversed(ws)

\* "for snippet in <set>": the elements of S in iteration order
SetIter(order, S) == LET In(w) == w \in S IN SelectSeq(order, In)

(***************************************************************************)
(* App.update_text.  A Python dict of counters (self.tag_matches,         *)
(* self.char_matches) is a sequence of [key, val] in insertion order.     *)
(***************************************************************************)
HasKey(m, k) == \E i \in 1..Len(m) : m[i].key = k

\* try: m[k] += 1  except KeyError: m[k] = 1
Incr(m, k) ==
    IF HasKey(m, k)
    THEN [i \in 1..Len(m) |-> IF m[i].key = k
                              THEN [key |-> k, val |-> m[i].val + 1]
                              ELSE m[i]]
    ELSE Append(m, [key |-> k, val |-> 1])

RECURSIVE IncrAll(_, _)
IncrAll(m, ks) == IF ks = <<>> THEN m ELSE IncrAll(Incr(m, Head(ks)), Tail(ks))

\* lines 225-238: every input word that is a tag counts for its snippets
RECURSIVE TagMatches(_, _, _, _)
TagMatches(order, tg, words, m) ==
    IF words = <<>> THEN m
    ELSE LET word == Head(words)
         IN IF word \in DOMAIN tg
            THEN TagMatches(order, tg, Tail(words),
                            IncrAll(m, SetIter(order, tg[word])))
            ELSE TagMatches(order, tg, Tail(words), m)

\* lines 267-279: the characters of one word; st = [m, used]
RECURSIVE CharsOfWord(_, _, _, _)
CharsOfWord(order, chs, word, st) ==
    IF word = <<>> THEN st
    ELSE LET ch == Head(word)
         IN IF ch \in st.used THEN CharsOfWord(order, chs, Tail(word), st)
            ELSE IF ch \in DOMAIN chs
                 THEN CharsOfWord(order, chs, Tail(word),
                          [m |-> IncrAll(st.m, SetIter(order, chs[ch])),
                           used |-> st.used \cup {ch}])
                 ELSE CharsOfWord(order, chs, Tail(word), st)

\* used_chars emptied at every word
RECURSIVE CharMatchesPerWord(_, _, _, _)
CharMatchesPerWord(order, chs, words, st) ==
    IF words = <<>> THEN st.m
    ELSE CharMatchesPerWord(order, chs, Tail(words),
             CharsOfWord(order, chs, Head(words), [m |-> st.m, used |-> {}]))

\* lines 262-279: used_chars lives across the words of the input
RECURSIVE CharMatches(_, _, _, _)
CharMatches(order, chs, words, st) ==
    IF words = <<>> THEN st.m
    ELSE CharMatches(order, chs, Tail(words),
                     CharsOfWord(order, chs, Head(words), st))

MaxVal(m) == IF m = <<>> THEN 0
             ELSE CHOOSE v \in {m[i].val : i \in 1..Len(m)} :
                      \A i \in 1..Len(m) : m[i].val <= v

\* sorted(m, key=m.get): the keys by ascending counter, a stable sort
RECURSIVE SortedFrom(_, _)
SortedFrom(m, v) ==
    IF v > MaxVal(m) THEN <<>>
    ELSE LET IsV(p) == p.val = v
             at == SelectSeq(m, IsV)
         IN [i \in 1..Len(at) |-> at[i].key] \o SortedFrom(m, v + 1)

\* the keys by descending counter
SortedDescending(m) ==
    LET a == SortedFrom(m, 1) IN [i \in 1..Len(a) |-> a[Len(a) + 1 - i]]

SortedKeys(m) == SortedFrom(m, 1)

\* the slice left out
Uncapped(s) == s

\* s[:MAX_MATCHES]
Capped(s) == IF Len(s) > MAX_MATCHES THEN SubSeq(s, 1, MAX_MATCHES) ELSE s

\* list(sorted(m, key=m.get)[:MAX_MATCHES])
Ranked(m) == Capped(SortedKeys(m))

\* the leading-uppercase branch left out
AdaptedNoUpper(w, has_leading_uppercase, is_all_lowercase) ==
    IF is_all_lowercase THEN Lower(w) ELSE w

\* lines 250-255 and 297-302, for one candidate
Adapted(w, has_leading_uppercase, is_all_lowercase) ==
    IF has_leading_uppercase THEN Upper(w)
    ELSE IF is_all_lowercase THEN Lower(w)
    ELSE w

\* lines 195-197 and 209-211: the candidate of an exact match
ExactAdapted(w, has_leading_uppercase) ==
    IF has_leading_uppercase THEN Upper(w) ELSE w

\* the lists of the previous pass left in place
NotCleared(tm, cm) ==
    [matches |-> matches, matches_shift |-> matches_shift, tag_matches |-> tm, char_matches |-> cm]

\* lines 170-177: what update_text leaves when it finds nothing
Cleared(tm, cm) ==
    [matches |-> <<>>, matches_shift |-> <<>>, tag_matches |-> tm, char_matches |-> cm]

\* the two lookups in the other order
NameBeforeExact(ls, ln, key) ==
    IF key \in DOMAIN ln THEN <<ln[key]>>
    ELSE IF key \in DOMAIN ls THEN <<ls[key]>>
    ELSE <<>>

\* lines 192-218: the exact-literal and exact-name lookups, in that order
ExactLookup(ls, ln, key) ==
    IF key \in DOMAIN ls THEN <<ls[key]>>
    ELSE IF key \in DOMAIN ln THEN <<ln[key]>>
    ELSE <<>>

\* the state update_text leaves for the buffer text
update_text(order, ls, ln, tg, chs, text) ==
    IF Strip(text) = <<>> THEN Cleared(<<>>, <<>>)
    ELSE
    LET has_leading_uppercase == IsUpperCh(text[1])
        is_all_lowercase == IsLower(text)
        key == Lower(text)
        exact == ExactLookup(ls, ln, key)
        words == Split(key)
        tm == TagMatches(order, tg, words, <<>>)
        cm == CharMatches(order, chs, words, [m |-> <<>>, used |-> {}])
        List(m) == LET r == Ranked(m)
                   IN [ matches |->
                          [i \in 1..Len(r) |->
                              Adapted(r[i], has_leading_uppercase, is_all_lowercase)],
                        matches_shift |-> [i \in 1..Len(r) |-> Upper(r[i])] ]
    IN IF exact # <<>>
       THEN [ matches |-> <<ExactAdapted(exact[1], has_leading_uppercase)>>,
              matches_shift |-> <<Upper(exact[1])>>,
              tag_matches |-> <<>>, char_matches |-> <<>> ]
       ELSE IF tm # <<>>
       THEN [ matches |-> List(tm).matches, matches_shift |-> List(tm).matches_shift,
              tag_matches |-> tm, char_matches |-> <<>> ]
       ELSE IF cm # <<>>
       THEN [ matches |-> List(cm).matches, matches_shift |-> List(cm).matches_shift,
              tag_matches |-> tm, char_matches |-> cm ]
       ELSE Cleared(tm, cm)

\* line 180 written as self.input_text = self.input_text.strip()
BufferStripped(text) == Strip(text)

\* self.input_text after update_text: lines 180 and 190 bind strip() and
\* lower() to the local input_text and the method never assigns the
\* attribute, so the buffer is what run() put there
BufferAfter(text) == text

\* an update_text that keeps self.selection
EditKeepsSelection(text) ==
    LET r == update_text(set_order, lowercase_snippets, lowercase_names,
                         tags, chars, text)
    IN /\ assigned_text' = text
       /\ input_text' = BufferAfter(text)
       /\ shift' = FALSE
       /\ selection' = selection
       /\ matches' = r.matches
       /\ matches_shift' = r.matches_shift
       /\ tag_matches' = r.tag_matches
       /\ char_matches' = r.char_matches

\* self.input_text has become text; self.update_text()
Edit(text) ==
    LET r == update_text(set_order, lowercase_snippets, lowercase_names,
                         tags, chars, text)
    IN /\ assigned_text' = text
       /\ input_text' = BufferAfter(text)
       /\ shift' = FALSE
       /\ selection' = 0
       /\ matches' = r.matches
       /\ matches_shift' = r.matches_shift
       /\ tag_matches' = r.tag_matches
       /\ char_matches' = r.char_matches

(***************************************************************************)
(* App.__init__ and App.run.  An exception of build_dictionary leaves     *)
(* App() and is caught in main(), which returns 1 without calling run().  *)
(***************************************************************************)
Startup(D) ==
    /\ dictionary \in D
    /\ set_order \in {HashOrder(dictionary, seed) : seed \in 0..MaxSeed}
    /\ LET ix == build_dictionary(dictionary)
       IN /\ lowercase_snippets = ix.lowercase_snippets
          /\ lowercase_names = ix.lowercase_names
          /\ names = ix.names
          /\ tags = ix.tags
          /\ chars = ix.chars
          /\ pc = IF ix.ok THEN "poll" ELSE "init_failed"
    /\ input_text = <<>>
    /\ matches = <<>>
    /\ matches_shift = <<>>
    /\ tag_matches = <<>>
    /\ char_matches = <<>>
    /\ shift = FALSE
    /\ selection = 0
    /\ done = FALSE
    /\ pending = 0
    /\ stdout = <<>>
    /\ clipboard = <<>>
    /\ cancelled = FALSE
    /\ assigned_text = <<>>

Init == Startup(SessionDictionaries)

\* "while not self.done:" entered; pygame.event.get() returns n events
PollEvents ==
    /\ pc = "poll"
    /\ ~done
    /\ \E n \in 0..MaxBatch : pending' = n
    /\ pc' = "events"
    /\ UNCHANGED <<index_vars, resolution_vars, shift, done, stdout, clipboard, cancelled, assigned_text>>

\* the for loop takes the next event of the batch
Handling == pc = "events" /\ pending > 0

\* pygame.QUIT: done, and the rest of the batch is dropped by the break
Quit ==
    /\ Handling
    /\ done' = TRUE
    /\ pending' = 0
    /\ UNCHANGED <<index_vars, resolution_vars, shift, pc, stdout, clipboard, cancelled, assigned_text>>

\* App.cancel
cancel ==
    /\ done' = TRUE
    /\ cancelled' = TRUE

\* K_ESCAPE
KeyEscape ==
    /\ Handling
    /\ cancel
    /\ pending' = pending - 1
    /\ UNCHANGED <<index_vars, resolution_vars, shift, pc, stdout, clipboard, assigned_text>>

\* K_RSHIFT / K_LSHIFT pressed
KeyShiftDown ==
    /\ Handling
    /\ shift' = TRUE
    /\ pending' = pending - 1
    /\ UNCHANGED <<index_vars, resolution_vars, done, pc, stdout, clipboard, cancelled, assigned_text>>

\* K_RSHIFT / K_LSHIFT released
KeyShiftUp ==
    /\ Handling
    /\ shift' = FALSE
    /\ pending' = pending - 1
    /\ UNCHANGED <<index_vars, resolution_vars, done, pc, stdout, clipboard, cancelled, assigned_text>>

\* K_BACKSPACE: input_text[:-1], then update_text
KeyBackspace ==
    /\ Handling
    /\ Edit(IF input_text = <<>> THEN <<>>
            ELSE SubSeq(input_text, 1, Len(input_text) - 1))
    /\ pending' = pending - 1
    /\ UNCHANGED <<index_vars, done, pc, stdout, clipboard, cancelled>>

\* any other key: input_text += event.unicode, then update_text;
\* event.unicode is one character, or empty for a key that types nothing
KeyChar ==
    /\ Handling
    /\ \E u \in {<<>>} \cup {<<c>> : c \in Alphabet} :
          /\ Len(input_text) + Len(u) <= MaxLen
          /\ Edit(input_text \o u)
    /\ pending' = pending - 1
    /\ UNCHANGED <<index_vars, done, pc, stdout, clipboard, cancelled>>

\* a step forward that stops short of wrapping
ForwardNoWrap(sel, n) == sel + 1

\* (selection + 1) % len(self.matches)
cycle_forward(sel, n) == (sel + 1) % n

\* a step backward that stays at the first candidate
BackwardNoWrap(sel, n) == IF sel = 0 THEN 0 ELSE sel - 1

\* (selection - 1) % len(self.matches); Python's % is never negative
cycle_backward(sel, n) == (sel - 1) % n

\* K_RIGHT
KeyRight ==
    /\ Handling
    /\ selection' = IF matches # <<>> THEN cycle_forward(selection, Len(matches))
                    ELSE selection
    /\ pending' = pending - 1
    /\ UNCHANGED <<index_vars, input_text, matches, matches_shift, tag_matches,
                   char_matches, shift, done, pc, stdout, clipboard, cancelled, assigned_text>>

\* K_LEFT
KeyLeft ==
    /\ Handling
    /\ selection' = IF matches # <<>> THEN cycle_backward(selection, Len(matches))
                    ELSE selection
    /\ pending' = pending - 1
    /\ UNCHANGED <<index_vars, input_text, matches, matches_shift, tag_matches,
                   char_matches, shift, done, pc, stdout, clipboard, cancelled, assigned_text>>

\* K_TAB: backward while shift is held, forward otherwise
KeyTab ==
    /\ Handling
    /\ selection' = IF matches = <<>> THEN selection
                    ELSE IF shift THEN cycle_backward(selection, Len(matches))
                    ELSE cycle_forward(selection, Len(matches))
    /\ pending' = pending - 1
    /\ UNCHANGED <<index_vars, input_text, matches, matches_shift, tag_matches,
                   char_matches, shift, done, pc, stdout, clipboard, cancelled, assigned_text>>

\* the first candidate whatever the selection
SubmitFirst(m, ms, sel, sh) == IF sh THEN ms[1] ELSE m[1]

\* the list element submit reads: self.matches_shift[self.selection] or
\* self.matches[self.selection] (Python indexes from 0)
submit_result(m, ms, sel, sh) == IF sh THEN ms[sel + 1] ELSE m[sel + 1]

\* K_RETURN: App.submit.  On an empty list the indexing raises IndexError,
\* which leaves run() and is caught in main(): the session ends there.
KeyReturn ==
    /\ Handling
    /\ IF selection < Len(matches)
       THEN LET result == submit_result(matches, matches_shift, selection, shift)
            IN /\ clipboard' = result
               /\ done' = TRUE
               /\ stdout' = Append(stdout, result)
               /\ pending' = pending - 1
               /\ pc' = pc
       ELSE /\ pc' = "crashed"
            /\ pending' = 0
            /\ UNCHANGED <<clipboard, done, stdout>>
    /\ UNCHANGED <<index_vars, resolution_vars, shift, cancelled, assigned_text>>

\* an event run() has no branch for (a key release other than shift, mouse)
OtherEvent ==
    /\ Handling
    /\ pending' = pending - 1
    /\ UNCHANGED <<index_vars, resolution_vars, shift, done, pc, stdout, clipboard, cancelled, assigned_text>>

\* the batch is handled: "if self.done: break", else update, render, next frame
EndFrame ==
    /\ pc = "events"
    /\ pending = 0
    /\ pc' = IF done THEN "exited" ELSE "poll"
    /\ UNCHANGED <<index_vars, resolution_vars, shift, done, pending, stdout, clipboard, cancelled, assigned_text>>

Next ==
    \/ PollEvents
    \/ Quit
    \/ KeyEscape
    \/ KeyShiftDown
    \/ KeyShiftUp
    \/ KeyBackspace
    \/ KeyChar
    \/ KeyRight
    \/ KeyLeft
    \/ KeyTab
    \/ KeyReturn
    \/ OtherEvent
    \/ EndFrame

Spec == Init /\ [][Next]_vars

(***************************************************************************)
(* The resolver alone: the buffer edits of run() (lines 329-332 and       *)
(* 352-356) with their update_text pass, on every dictionary, without the *)
(* frame loop around them.                                                 *)
(***************************************************************************)
InitResolve == Startup(Dictionaries)

\* input_text += event.unicode; update_text()
TypeChar ==
    /\ pc = "poll"
    /\ \E c \in Alphabet :
          /\ Len(input_text) < MaxLen
          /\ Edit(Append(input_text, c))
    /\ UNCHANGED <<index_vars, done, pc, pending, stdout, clipboard, cancelled>>

\* input_text = input_text[:-1]; update_text()
Erase ==
    /\ pc = "poll"
    /\ input_text # <<>>
    /\ Edit(SubSeq(input_text, 1, Len(input_text) - 1))
    /\ UNCHANGED <<index_vars, done, pc, pending, stdout, clipboard, cancelled>>

NextResolve == TypeChar \/ Erase

SpecResolve == InitResolve /\ [][NextResolve]_vars

TypeOK ==
    /\ done \in BOOLEAN
    /\ shift \in BOOLEAN
    /\ pending \in 0..MaxBatch
    /\ pc \in {"init_failed", "poll", "events", "exited", "crashed"}
    /\ Len(input_text) <= MaxLen

(***************************************************************************)
(* The strategies an input satisfies, read off the dictionary entries.    *)
(***************************************************************************)
Entries == 1..Len(dictionary)

\* the key the two exact lookups use
LookupKey == Lower(input_text)

InputWords == Split(LookupKey)

ExactHits == {i \in Entries : Lower(dictionary[i].word) = LookupKey}

NameHits == {i \in Entries : Lower(dictionary[i].name) = LookupKey}

TagHits == LET ws == InputWords
           IN {i \in Entries : \E k \in 1..Len(ws) : ws[k] \in dictionary[i].tags}

CharHits == LET ws == InputWords
            IN {i \in Entries :
                   \E k \in 1..Len(ws) :
                       \E j \in 1..Len(ws[k]) : ws[k][j] \in dictionary[i].chars}

\* the shift forms of the entries in H
ShiftForms(H) == {Upper(dictionary[i].word) : i \in H}

Listed(s) == {s[i] : i \in 1..Len(s)}

NonBlank == Strip(input_text) # <<>>

(***************************************************************************)
(* C1: the first strategy that has a candidate decides the result, in the *)
(* order exact literal, exact name, tag, character: an exact hit gives    *)
(* that single entry even if a name, tag or char also hits; a name hit    *)
(* wins over tags and chars; chars are used only when no tag matched.     *)
(***************************************************************************)
C1_StrategyPriority ==
    NonBlank =>
      /\ ExactHits # {} =>
            /\ Len(matches) = 1
            /\ \E i \in ExactHits : matches_shift = <<Upper(dictionary[i].word)>>
      /\ (ExactHits = {} /\ NameHits # {}) =>
            /\ Len(matches) = 1
            /\ \E i \in NameHits : matches_shift = <<Upper(dictionary[i].word)>>
      /\ (ExactHits = {} /\ NameHits = {} /\ TagHits # {}) =>
            /\ matches # <<>>
            /\ Listed(matches_shift) \subseteq ShiftForms(TagHits)
            /\ char_matches = <<>>
      /\ (ExactHits = {} /\ NameHits = {} /\ TagHits = {} /\ CharHits # {}) =>
            /\ matches # <<>>
            /\ Listed(matches_shift) \subseteq ShiftForms(CharHits)
      /\ char_matches # <<>> => TagHits = {}

\* an input that satisfies all four strategies, through different entries
C1_Witness ==
    /\ NonBlank
    /\ ExactHits # {} /\ NameHits # {} /\ TagHits # {} /\ CharHits # {}
    /\ ExactHits \cap NameHits = {}
    /\ ExactHits \cap TagHits = {}
    /\ Len(matches) = 1

(***************************************************************************)
(* C2: a submit on a non-empty candidate list prints exactly the string   *)
(* at the selection, from matches_shift when shift is set and from        *)
(* matches otherwise.                                                      *)
(***************************************************************************)
C2_SubmitAtCursor ==
    [][stdout' # stdout =>
          /\ matches # <<>>
          /\ stdout' = Append(stdout, IF shift THEN matches_shift[selection + 1]
                                      ELSE matches[selection + 1])
          /\ clipboard' = stdout'[Len(stdout')]]_vars

\* a shifted submit away from the first candidate, whose two forms differ
C2_Witness ==
    /\ Len(stdout) = 1
    /\ selection > 0
    /\ shift
    /\ stdout[1] = matches_shift[selection + 1]
    /\ stdout[1] # matches[selection + 1]
    /\ stdout[1] # matches_shift[1]

(***************************************************************************)
(* C3: a submit while the candidate list is empty never crashes and       *)
(* prints no candidate: no step taken from a state with an empty list     *)
(* ends the session by an error or writes an output.                      *)
(***************************************************************************)
C3_EmptySubmitSafe ==
    [][matches = <<>> => (pc' # "crashed" /\ stdout' = stdout)]_vars

(***************************************************************************)
(* C4: submit is single-shot: at most one output is ever emitted in a     *)
(* session.                                                                *)
(***************************************************************************)
C4_AtMostOneOutput == Len(stdout) <= 1

(***************************************************************************)
(* C5: once cancel has been called, no output is emitted in the session.  *)
(***************************************************************************)
C5_NoOutputAfterCancel == [][cancelled => stdout' = stdout]_vars

(***************************************************************************)
(* C6: the candidate list never has more than MAX_MATCHES elements.       *)
(***************************************************************************)
C6_AtMostMaxMatches ==
    /\ Len(matches) <= MAX_MATCHES
    /\ Len(matches_shift) <= MAX_MATCHES

\* more snippets matched by tag than the list may hold
C6_Witness ==
    /\ Len(tag_matches) > MAX_MATCHES
    /\ Len(matches) = MAX_MATCHES

(***************************************************************************)
(* C7: an empty or all-whitespace input, and any input that no strategy   *)
(* matches, leaves both candidate lists empty.                            *)
(***************************************************************************)
C7_ResolutionTotal ==
    /\ ~NonBlank => (matches = <<>> /\ matches_shift = <<>>)
    /\ (ExactHits = {} /\ NameHits = {} /\ TagHits = {} /\ CharHits = {}) =>
           (matches = <<>> /\ matches_shift = <<>>)

\* a non-blank input that nothing matches
C7_Witness ==
    /\ NonBlank
    /\ ExactHits = {} /\ NameHits = {} /\ TagHits = {} /\ CharHits = {}
    /\ matches = <<>>

(***************************************************************************)
(* C8: the selection is 0 when there are no candidates and otherwise      *)
(* indexes the candidate list: 0 <= selection < len(matches).             *)
(***************************************************************************)
C8_CursorInRange ==
    IF matches = <<>> THEN selection = 0
    ELSE 0 <= selection /\ selection < Len(matches)

\* the selection on the last of three candidates
C8_Witness ==
    /\ Len(matches) = 3
    /\ selection = 2

(***************************************************************************)
(* C9: with n candidates a forward cycle sets the selection to            *)
(* (selection + 1) mod n and a backward cycle to (selection - 1 + n)      *)
(* mod n; with n = 0 both leave it unchanged.  Right and Tab cycle        *)
(* forward, Left and Tab under shift cycle backward.                      *)
(***************************************************************************)
C9_Forward ==
    IF matches = <<>> THEN selection' = selection
    ELSE selection' = (selection + 1) % Len(matches)

C9_Backward ==
    IF matches = <<>> THEN selection' = selection
    ELSE selection' = (selection - 1 + Len(matches)) % Len(matches)

C9_Cycling ==
    [][/\ KeyRight => C9_Forward
       /\ KeyLeft => C9_Backward
       /\ KeyTab => IF shift THEN C9_Backward ELSE C9_Forward]_vars

\* the selection on the last candidate while a key is still to be handled:
\* a forward cycle wraps here, and a backward one from 0 leads here
C9_Witness ==
    /\ Handling
    /\ Len(matches) = 3
    /\ selection = Len(matches) - 1

(***************************************************************************)
(* C10: every edit of the input buffer (a character typed, a backspace)   *)
(* sets the selection to 0.                                               *)
(***************************************************************************)
C10_EditResetsCursor ==
    [][(KeyChar \/ KeyBackspace) => selection' = 0]_vars

\* an edit is about to be handled while the selection is away from 0
C10_Witness ==
    /\ Handling
    /\ selection > 0
    /\ Len(input_text) < MaxLen

(***************************************************************************)
(* The casing style of the raw input.                                      *)
(***************************************************************************)
\* the first character of the untrimmed input is an uppercase letter
LeadingUpper == input_text # <<>> /\ IsUpperCh(input_text[1])

\* some character of the input is an uppercase letter
SomeUpper == \E i \in 1..Len(input_text) : IsUpperCh(input_text[i])

\* the words of the dictionary as written
CanonicalWords == {dictionary[i].word : i \in Entries}

(***************************************************************************)
(* C11: matches_shift has the length and order of matches, its i-th       *)
(* element is the uppercase form of the i-th matched word, and under a    *)
(* leading uppercase letter of the raw input the two lists are equal.     *)
(***************************************************************************)
C11_ShiftParallel ==
    /\ Len(matches_shift) = Len(matches)
    /\ \A i \in 1..Len(matches) :
          /\ matches_shift[i] = Upper(matches[i])
          /\ matches_shift[i] \in ShiftForms(Entries)
          /\ LeadingUpper => matches[i] = matches_shift[i]

\* several tag candidates under a leading uppercase letter, whose words
\* are not all uppercase as stored
C11_Witness ==
    /\ LeadingUpper
    /\ tag_matches # <<>>
    /\ Len(matches) >= 2
    /\ \E k \in 1..Len(tag_matches) : Upper(tag_matches[k].key) # tag_matches[k].key

(***************************************************************************)
(* C12: under an input that has no uppercase letter, the primary form of  *)
(* every candidate is the lowercase of the entry's canonical word, in     *)
(* every strategy.                                                         *)
(***************************************************************************)
C12_LowercasePrimary ==
    (NonBlank /\ ~LeadingUpper /\ ~SomeUpper) =>
        \A i \in 1..Len(matches) :
            \E e \in Entries : /\ matches[i] = Lower(dictionary[e].word)
                               /\ matches_shift[i] = Upper(dictionary[e].word)

(***************************************************************************)
(* C13: under a mixed-case input (no leading uppercase letter, but an     *)
(* uppercase letter further on) the primary form of every candidate is    *)
(* the entry's canonical word in its stored case, in every strategy.      *)
(***************************************************************************)
C13_MixedCaseCanonical ==
    (NonBlank /\ ~LeadingUpper /\ SomeUpper) =>
        \A i \in 1..Len(matches) :
            \E e \in Entries : /\ matches[i] = dictionary[e].word
                               /\ matches_shift[i] = Upper(dictionary[e].word)

(***************************************************************************)
(* C14: tag and character results are in ascending order of the match     *)
(* counters, and the list is the first MAX_MATCHES of that order.         *)
(***************************************************************************)
\* the counters the ranked list was made from
Counters == IF tag_matches # <<>> THEN tag_matches ELSE char_matches

\* the counter of the candidate whose shift form is sf
CountOf(sf) ==
    LET k == CHOOSE k \in 1..Len(Counters) : Upper(Counters[k].key) = sf
    IN Counters[k].val

C14_AscendingByCount ==
    Counters # <<>> =>
      /\ Len(matches) = IF Len(Counters) > MAX_MATCHES THEN MAX_MATCHES
                        ELSE Len(Counters)
      /\ \A i \in 1..Len(matches) :
            \E k \in 1..Len(Counters) : Upper(Counters[k].key) = matches_shift[i]
      /\ \A i, j \in 1..Len(matches) :
            i < j => CountOf(matches_shift[i]) <= CountOf(matches_shift[j])
      /\ \A k \in 1..Len(Counters) :
            Upper(Counters[k].key) \notin Listed(matches_shift) =>
                \A i \in 1..Len(matches) : CountOf(matches_shift[i]) <= Counters[k].val

\* a candidate with the smaller tag counter ahead of one with the larger
C14_Witness ==
    /\ tag_matches # <<>>
    /\ Len(matches) >= 2
    /\ CountOf(matches_shift[1]) < CountOf(matches_shift[Len(matches)])

(***************************************************************************)
(* C15: referential integrity of the built index.                         *)
(***************************************************************************)
\* the words held by the sets of the tag and char indexes
StoredWords == UNION ({tags[t] : t \in DOMAIN tags} \cup {chars[c] : c \in DOMAIN chars})

InvalidEntries ==
    {i \in Entries : "name" \notin DOMAIN dictionary[i] \/ dictionary[i].name = <<>>}

C16_InvalidEntryStopsStartup ==
    InvalidEntries # {} =>
        /\ pc = "init_failed"
        /\ input_text = <<>> /\ matches = <<>> /\ matches_shift = <<>>
        /\ stdout = <<>> /\ clipboard = <<>>
        /\ ~ENABLED Next

\* startup stopped with part of the index built
C16_Witness ==
    /\ pc = "init_failed"
    /\ InvalidEntries # {}
    /\ DOMAIN lowercase_snippets # {}
    /\ DOMAIN tags # {}

(***************************************************************************)
(* C17: the exact literal and exact name lookups use the trimmed,         *)
(* lower-cased input: an input whose lower(strip()) is a key of the exact *)
(* index (or, failing that, of the name index) resolves to that single    *)
(* entry, surrounding whitespace or not.                                   *)
(***************************************************************************)
TrimmedKey == Lower(Strip(input_text))

TrimmedExactHits == {i \in Entries : Lower(dictionary[i].word) = TrimmedKey}

TrimmedNameHits == {i \in Entries : Lower(dictionary[i].name) = TrimmedKey}

C17_TrimmedLookup ==
    NonBlank =>
      /\ TrimmedExactHits # {} =>
            /\ Len(matches) = 1
            /\ \E i \in TrimmedExactHits : matches_shift = <<Upper(dictionary[i].word)>>
      /\ (TrimmedExactHits = {} /\ TrimmedNameHits # {}) =>
            /\ Len(matches) = 1
            /\ \E i \in TrimmedNameHits : matches_shift = <<Upper(dictionary[i].word)>>

(***************************************************************************)
(* C18: in tag matching the counter of an entry is the number of distinct *)
(* input words that are tags of it; a repeated word counts once.          *)
(***************************************************************************)
\* the entries filed under the lowercase word w
EntriesOf(w) == {e \in Entries : Lower(dictionary[e].word) = w}

C18_DistinctTagWords ==
    \A k \in 1..Len(tag_matches) :
        tag_matches[k].val =
            Cardinality({w \in Listed(InputWords) :
                            \E e \in EntriesOf(tag_matches[k].key) : w \in dictionary[e].tags})

(***************************************************************************)
(* C19: in character matching the counter of an entry is the number of    *)
(* distinct input characters among its chars: a character counts once     *)
(* over the whole input, across the words.                                 *)
(***************************************************************************)
InputChars == LET ws == InputWords IN UNION {Listed(ws[k]) : k \in 1..Len(ws)}

C19_DistinctChars ==
    /\ \A k \in 1..Len(char_matches) :
          char_matches[k].val =
              Cardinality({c \in InputChars :
                              \E e \in EntriesOf(char_matches[k].key) : c \in dictionary[e].chars})
    /\ char_matches # <<>> =>
          \A e \in CharHits : HasKey(char_matches, Lower(dictionary[e].word))

\* a character match on an input whose two words share a character
C19_Witness ==
    /\ char_matches # <<>>
    /\ Len(InputWords) >= 2
    /\ \E c \in Listed(InputWords[1]) \cap Listed(InputWords[2]) :
          \E e \in CharHits : c \in dictionary[e].chars
    /\ char_matches[1].val = 1

(***************************************************************************)
(* C20: the shift flag changes only on a shift key-down or key-up event;  *)
(* an update_text pass (a character typed, a backspace) leaves it as it   *)
(* is.                                                                     *)
(***************************************************************************)
C20_ShiftOnlyByShiftKeys ==
    [][shift' # shift => (KeyShiftDown \/ KeyShiftUp)]_vars

(***************************************************************************)
(* C21: after the build nothing writes the index: every step leaves the   *)
(* dictionary and the five maps built from it as they are.  The buffer    *)
(* self.input_text holds exactly the text run() assigned to it, so an     *)
(* update_text pass leaves it unchanged; it changes only in the character *)
(* and backspace branches of run(), by one character appended or the last *)
(* one dropped, and never on a cycle key or on Enter.                     *)
(***************************************************************************)
\* K_RIGHT, K_LEFT, K_TAB and K_RETURN
CycleOrSubmit == KeyRight \/ KeyLeft \/ KeyTab \/ KeyReturn

\* input_text += event.unicode, or input_text[:-1]
AppendOrBackspace ==
    \/ \E c \in Alphabet : input_text' = Append(input_text, c)
    \/ input_text # <<>> /\ input_text' = SubSeq(input_text, 1, Len(input_text) - 1)

C21_IndexAndBufferFrame ==
    [][ /\ index_vars' = index_vars
        /\ input_text' = assigned_text'
        /\ input_text' # input_text =>
              (KeyChar \/ KeyBackspace) /\ AppendOrBackspace
        /\ CycleOrSubmit => input_text' = input_text ]_vars

\* a buffer with whitespace at its end has been resolved to several
\* candidates, the cursor has been cycled off the first and Enter has
\* submitted
C21_Witness ==
    /\ stdout # <<>>
    /\ selection > 0
    /\ Len(matches) > 1
    /\ input_text # Strip(input_text)

====
